---- MODULE Spec2Model ----
(***************************************************************************)
(* A model of screen-sendenv.py (the unified screen/tmux tool) and of      *)
(* tmux-sendenv.py (the earlier tmux-only tool).  One behaviour is one run *)
(* of one of the two tools: the command line and the environment are fixed *)
(* in Init, every external command the run starts is appended to log with  *)
(* the result the operating system gave it, and outcome is how the run     *)
(* ended.                                                                  *)
(*                                                                         *)
(* Python strings are TLA+ strings; an optional value is <<>> (None) or    *)
(* <<v>>.                                                                  *)
(***************************************************************************)
EXTENDS Integers, Sequences, FiniteSets, TLC

VARIABLES tool, opts, vars, env, pc, order, k, tried, sender, i, log, outcome

state == <<tool, opts, vars, env, pc, order, k, tried, sender, i, log, outcome>>

(***************************************************************************)
(* Bounds and input pools.                                                 *)
(***************************************************************************)
MaxVars == 2

MaxSession == 1

None == <<>>

Some(v) == <<v>>

ArgPool == {"F", "F=", "F=v", "=v", "F=a=b"}

EnvNames == {"F"}

EnvPool == [EnvNames -> {None, Some(""), Some("e")}]

SocketPool == {None, Some(""), Some("s"), Some("/t/s")}

PathPool == {None, Some(""), Some("/o/mux")}

SessionPool == {None} \cup {Some(n) : n \in 0..MaxSession}

DefaultSocketOutputs == {"", "7.pts"}

Results == {"exit0", "exit1", "nostart"}

VarLists == UNION {[1..n -> ArgPool] : n \in 0..MaxVars}

(***************************************************************************)
(* Python primitives.                                                      *)
(***************************************************************************)
RECURSIVE FindFrom(_, _, _)
FindFrom(s, c, j) ==
    IF j > Len(s) THEN -1
    ELSE IF SubSeq(s, j, j) = c THEN j - 1
    ELSE FindFrom(s, c, j + 1)

\* str.find(c): 0-based index of the first occurrence, -1 when there is none
find(s, c) == FindFrom(s, c, 1)

\* str.split(c, 1) of a string that contains c
split1(s, c) ==
    LET p == find(s, c)
    IN  <<SubSeq(s, 1, p), SubSeq(s, p + 2, Len(s))>>

RECURSIVE Digits(_)
Digits(n) ==
    IF n < 10 THEN SubSeq("0123456789", n + 1, n + 1)
    ELSE Digits(n \div 10) \o SubSeq("0123456789", (n % 10) + 1, (n % 10) + 1)

\* str() of an int
str(n) == IF n < 0 THEN "-" \o Digits(-n) ELSE Digits(n)

\* truth value of an optional string: None and "" are false
TruthyStr(o) == o # None /\ o[1] # ""

\* truth value of an optional int: None and 0 are false
TruthyInt(o) == o # None /\ o[1] # 0

\* os.getenv(name)
getenv(name) == IF name \in DOMAIN env THEN env[name] ELSE None

sep == "/"

(***************************************************************************)
(* screen-sendenv.py: the senders.                                         *)
(***************************************************************************)
default_path(kind) == IF kind = "screen" THEN "screen" ELSE "tmux"

\* TmuxEnvSender keeps the session keyword, the base class ignores it
handle_kwargs(kind, session) == IF kind = "tmux" THEN session ELSE None

\* the fields EnvSender.__init__ sets before it verifies the connection
NewSender(kind, socket, path, session) ==
    [kind |-> kind,
     socket |-> socket,
     path |-> IF TruthyStr(path) THEN path[1] ELSE default_path(kind),
     session |-> handle_kwargs(kind, session)]

\* faulty variant: no default socket is looked up
Screen_socket_argspec_OwnOnly(s, ds) ==
    IF TruthyStr(s.socket) THEN <<"-S", s.socket[1]>> ELSE <<>>

\* ScreenEnvSender.socket_argspec; ds is what default_socket returns
Screen_socket_argspec(s, ds) ==
    LET socket == IF TruthyStr(s.socket) THEN s.socket[1] ELSE ds
    IN  IF socket # "" THEN <<"-S", socket>> ELSE <<>>

Screen_command_prelude(s, ds) == <<s.path>> \o Screen_socket_argspec(s, ds) \o <<"-X">>

Screen_test_command == <<"echo", "">>

Screen_sendenv_command(name, value) ==
    IF value = None THEN <<"unsetenv", name>>
    ELSE <<"setenv", name, value[1]>>

session_argspec(s) ==
    IF ~TruthyInt(s.session) THEN <<>>
    ELSE <<"-t", str(s.session[1])>>

\* faulty variant: -S for every socket, as in tmux-sendenv.py
Tmux_socket_argspec_AlwaysS(s) ==
    IF ~TruthyStr(s.socket) THEN <<>> ELSE <<"-S", s.socket[1]>>

Tmux_socket_argspec(s) ==
    IF ~TruthyStr(s.socket) THEN <<>>
    ELSE IF find(s.socket[1], sep) # -1 THEN <<"-S", s.socket[1]>>
    ELSE <<"-L", s.socket[1]>>

Tmux_command_prelude(s) == <<s.path>> \o Tmux_socket_argspec(s)

Tmux_test_command(s) == <<"list-sessions">> \o session_argspec(s)

Tmux_sendenv_command(s, name, value) ==
    IF value = None THEN <<"setenv">> \o session_argspec(s) \o <<"-u", name>>
    ELSE <<"setenv">> \o session_argspec(s) \o <<name, value[1]>>

command_prelude(s, ds) ==
    IF s.kind = "screen" THEN Screen_command_prelude(s, ds) ELSE Tmux_command_prelude(s)

command_postlude(s) == <<>>

test_command(s) == IF s.kind = "screen" THEN Screen_test_command ELSE Tmux_test_command(s)

sender_sendenv_command(s, name, value) ==
    IF s.kind = "screen" THEN Screen_sendenv_command(name, value)
    ELSE Tmux_sendenv_command(s, name, value)

\* the argument vector send_cmd hands to subprocess.check_call
send_cmd(s, cmd, ds) == command_prelude(s, ds) \o cmd \o command_postlude(s)

\* default_socket is read once per command, and only by a Screen sender whose
\* own socket is None or "".  Its shell pipeline ends in cut, whose status is
\* zero, so check_output returns the (stripped) output and does not raise.
ReadsDefaultSocket(s) == s.kind = "screen" /\ ~TruthyStr(s.socket)

DsChoices(s) == IF ReadsDefaultSocket(s) THEN DefaultSocketOutputs ELSE {""}

\* the record of one external command of a sender
Entry(op, s, cmd, ds, rc, name, value, idx) ==
    [op |-> op, tool |-> "screen-sendenv", kind |-> s.kind,
     config |-> [path |-> s.path, socket |-> s.socket, session |-> s.session],
     cmd |-> send_cmd(s, cmd, ds),
     ds |-> IF ReadsDefaultSocket(s) THEN Some(ds) ELSE None,
     rc |-> rc, name |-> name, value |-> value, idx |-> idx]

\* subprocess.check_call: CalledProcessError for a non-zero exit status,
\* OSError for a process that could not be started
check_call(rc) ==
    IF rc = "exit0" THEN "ok"
    ELSE IF rc = "exit1" THEN "CalledProcessError"
    ELSE "OSError"

\* verify_connection: CalledProcessError becomes the connection error,
\* anything else send_cmd raises is not caught
verify_connection(rc) ==
    IF check_call(rc) = "CalledProcessError" THEN "ConnectionError"
    ELSE check_call(rc)

\* faulty variant: the failure of a send is swallowed
send_variable_swallow(rc) == "ok"

\* send_variable: the exception of send_cmd propagates
send_variable(rc) == check_call(rc)

session_types == {"screen", "tmux"}

\* faulty variant: only the connection error is caught
AutoSelectCatches_ConnectionOnly(err) == err = "ConnectionError"

\* the bare except of AutoSelectEnvSender catches every error
AutoSelectCatches(err) == TRUE

\* the orders in which a dict with these two keys can be iterated
Orders == {<<"screen", "tmux">>, <<"tmux", "screen">>}

(***************************************************************************)
(* tmux-sendenv.py.                                                        *)
(***************************************************************************)
socket_spec(socket) == IF TruthyStr(socket) THEN <<"-S", socket[1]>> ELSE <<>>

\* verify_socket returns on its first line: it runs no command
verify_socket(socket) == <<>>

\* sendenv: the exception of check_call propagates
sendenv(rc) == check_call(rc)

\* sendenv_command raises ValueError for an empty name
sendenv_raises(name) == name = ""

\* the value sendenv_command sends: a missing one is looked up once more
sendenv_value(name, value) == IF value = None THEN getenv(name) ELSE value

\* sendenv_command: the argument vector, for a name that is not empty
sendenv_command(name, value, socket, path) ==
    LET v == sendenv_value(name, value)
        tmux_cmd == IF v = None THEN <<"setenv", "-u", name>>
                    ELSE <<"setenv", name, v[1]>>
    IN  <<path>> \o socket_spec(socket) \o tmux_cmd

(***************************************************************************)
(* The command line of main, both tools.                                   *)
(***************************************************************************)
\* lines "if var.find('=') != -1 ... else value = os.getenv(var)"
ParseVar(var) ==
    IF find(var, "=") # -1
    THEN [name |-> split1(var, "=")[1], value |-> Some(split1(var, "=")[2])]
    ELSE [name |-> var, value |-> getenv(var)]

\* faulty variant: an empty value is unset whatever the flag
UnsetEmpty_Always(value, unset_empty) ==
    IF value = Some("") THEN None ELSE value

\* line "if value == '' and unset_empty: value = None"
UnsetEmpty(value, unset_empty) ==
    IF value = Some("") /\ unset_empty THEN None ELSE value

NoSender == [kind |-> "none"]

\* faulty variant: the list flag is ignored
ListOnly_Ignored == FALSE

\* line "if list:" of screen-sendenv's main
ListOnly == opts.list

\* the options of screen-sendenv's main, over the given sockets, paths and sessions
ScreenOpts(sockets, paths, sessions) ==
    [session_type : {"screen", "tmux", "auto"}, list : BOOLEAN,
     unset_empty : BOOLEAN, session : sessions,
     socket : sockets, path : paths]

\* tmux-sendenv has no session type, session, list or unset-empty option
TmuxOpts(sockets, paths) ==
    [session_type : {"tmux"}, list : {FALSE},
     unset_empty : {FALSE}, session : {None},
     socket : sockets, path : paths]

\* runs with every list of up to MaxVars arguments, on a plain configuration
InitRun ==
    /\ opts \in IF tool = "screen-sendenv"
                THEN ScreenOpts({None, Some("s")}, {None}, {None})
                ELSE TmuxOpts({None, Some("s")}, {None})
    /\ vars \in VarLists

\* runs with every socket, path and session, on at most one argument
InitBuild ==
    /\ opts \in IF tool = "screen-sendenv"
                THEN ScreenOpts(SocketPool, PathPool, SessionPool)
                ELSE TmuxOpts(SocketPool, PathPool)
    /\ vars \in {l \in VarLists : Len(l) <= 1}

Init ==
    /\ tool \in {"screen-sendenv", "tmux-sendenv"}
    /\ (InitRun \/ InitBuild)
    /\ env \in EnvPool
    /\ pc = "main"
    /\ order = <<>>
    /\ k = 0
    /\ tried = <<>>
    /\ sender = NoSender
    /\ i = 1
    /\ log = <<>>
    /\ outcome = "running"

\* EnvSender.__init__ of the class the user named with -t screen or -t tmux
SelectSender ==
    /\ tool = "screen-sendenv" /\ pc = "main"
    /\ opts.session_type \in session_types
    /\ LET s == NewSender(opts.session_type, opts.socket, opts.path, opts.session)
       IN  \E ds \in DsChoices(s), rc \in Results :
              /\ log' = Append(log, Entry("test", s, test_command(s), ds, rc, "", None, 0))
              /\ IF verify_connection(rc) = "ok"
                 THEN sender' = s /\ pc' = "selected" /\ outcome' = outcome
                 ELSE sender' = sender /\ pc' = "done" /\ outcome' = verify_connection(rc)
    /\ UNCHANGED <<tool, opts, vars, env, order, k, tried, i>>

\* AutoSelectEnvSender is entered: the dict's iteration order is fixed
EnterAutoSelect ==
    /\ tool = "screen-sendenv" /\ pc = "main"
    /\ opts.session_type = "auto"
    /\ order' \in Orders
    /\ k' = 1
    /\ pc' = "auto"
    /\ UNCHANGED <<tool, opts, vars, env, tried, sender, i, log, outcome>>

\* one iteration of the for loop of AutoSelectEnvSender; the bare except
\* swallows whatever the constructor raised
AutoSelectTry ==
    /\ pc = "auto" /\ k <= Len(order)
    /\ LET s == NewSender(order[k], opts.socket, opts.path, opts.session)
       IN  \E ds \in DsChoices(s), rc \in Results :
              /\ log' = Append(log, Entry("test", s, test_command(s), ds, rc, "", None, 0))
              /\ tried' = Append(tried, [kind |-> order[k], result |-> verify_connection(rc)])
              /\ IF verify_connection(rc) = "ok"
                 THEN sender' = s /\ pc' = "selected" /\ k' = k /\ outcome' = outcome
                 ELSE IF AutoSelectCatches(verify_connection(rc))
                 THEN sender' = sender /\ pc' = pc /\ k' = k + 1 /\ outcome' = outcome
                 ELSE /\ sender' = sender /\ pc' = "done" /\ k' = k
                      /\ outcome' = verify_connection(rc)
    /\ UNCHANGED <<tool, opts, vars, env, order, i>>

\* the else branch of the for loop
AutoSelectFail ==
    /\ pc = "auto" /\ k > Len(order)
    /\ outcome' = "AutoDetectError"
    /\ pc' = "done"
    /\ UNCHANGED <<tool, opts, vars, env, order, k, tried, sender, i, log>>

\* main with --list: the sender is reported and nothing is sent
ListSession ==
    /\ tool = "screen-sendenv" /\ pc = "selected" /\ ListOnly
    /\ outcome' = "ok"
    /\ pc' = "done"
    /\ UNCHANGED <<tool, opts, vars, env, order, k, tried, sender, i, log>>

\* one iteration of the for loop of screen-sendenv's main
SendVariable ==
    /\ tool = "screen-sendenv" /\ pc = "selected" /\ ~ListOnly
    /\ i <= Len(vars)
    /\ LET p == ParseVar(vars[i])
           value == UnsetEmpty(p.value, opts.unset_empty)
       IN  \E ds \in DsChoices(sender), rc \in Results :
              /\ log' = Append(log, Entry("send", sender,
                                          sender_sendenv_command(sender, p.name, value),
                                          ds, rc, p.name, value, i))
              /\ IF send_variable(rc) = "ok"
                 THEN i' = i + 1 /\ pc' = pc /\ outcome' = outcome
                 ELSE i' = i /\ pc' = "done" /\ outcome' = send_variable(rc)
    /\ UNCHANGED <<tool, opts, vars, env, order, k, tried, sender>>

\* the for loop of screen-sendenv's main is exhausted
MainReturn ==
    /\ tool = "screen-sendenv" /\ pc = "selected" /\ ~ListOnly
    /\ i > Len(vars)
    /\ outcome' = "ok"
    /\ pc' = "done"
    /\ UNCHANGED <<tool, opts, vars, env, order, k, tried, sender, i, log>>

\* tmux-sendenv's main calls verify_socket(socket)
TmuxVerifySocket ==
    /\ tool = "tmux-sendenv" /\ pc = "main"
    /\ log' = log \o verify_socket(opts.socket)
    /\ pc' = "selected"
    /\ UNCHANGED <<tool, opts, vars, env, order, k, tried, sender, i, outcome>>

\* the -p option of tmux-sendenv, "tmux" by default
tmuxpath == IF opts.path = None THEN "tmux" ELSE opts.path[1]

\* one iteration of the for loop of tmux-sendenv's main; sendenv runs the
\* command with check_call
TmuxSendenv ==
    /\ tool = "tmux-sendenv" /\ pc = "selected"
    /\ i <= Len(vars)
    /\ LET p == ParseVar(vars[i])
       IN  IF sendenv_raises(p.name)
           THEN /\ outcome' = "ValueError" /\ pc' = "done"
                /\ UNCHANGED <<i, log>>
           ELSE \E rc \in Results :
                  /\ log' = Append(log,
                         [op |-> "send", tool |-> "tmux-sendenv", kind |-> "tmux",
                          config |-> [path |-> tmuxpath, socket |-> opts.socket,
                                      session |-> None],
                          cmd |-> sendenv_command(p.name, p.value, opts.socket, tmuxpath),
                          ds |-> None, rc |-> rc, name |-> p.name,
                          value |-> sendenv_value(p.name, p.value), idx |-> i])
                  /\ IF sendenv(rc) = "ok"
                     THEN i' = i + 1 /\ pc' = pc /\ outcome' = outcome
                     ELSE i' = i /\ pc' = "done" /\ outcome' = sendenv(rc)
    /\ UNCHANGED <<tool, opts, vars, env, order, k, tried, sender>>

\* the for loop of tmux-sendenv's main is exhausted
TmuxMainReturn ==
    /\ tool = "tmux-sendenv" /\ pc = "selected"
    /\ i > Len(vars)
    /\ outcome' = "ok"
    /\ pc' = "done"
    /\ UNCHANGED <<tool, opts, vars, env, order, k, tried, sender, i, log>>

Next ==
    \/ SelectSender
    \/ EnterAutoSelect
    \/ AutoSelectTry
    \/ AutoSelectFail
    \/ ListSession
    \/ SendVariable
    \/ MainReturn
    \/ TmuxVerifySocket
    \/ TmuxSendenv
    \/ TmuxMainReturn

Spec == Init /\ [][Next]_state

(***************************************************************************)
(* Properties.                                                             *)
(***************************************************************************)
Range(f) == {f[j] : j \in DOMAIN f}

Sends == SelectSeq(log, LAMBDA e : e.op = "send")

HasChar(t, c) == \E j \in 1..Len(t) : SubSeq(t, j, j) = c

FirstChar(t, c) == CHOOSE j \in 1..Len(t) :
    SubSeq(t, j, j) = c /\ \A h \in 1..(j - 1) : SubSeq(t, h, h) # c

Failed(e) == e.rc # "exit0"

\* C1 (as claimed, both tools): no set/unset command is executed unless a
\* test command for the same path, socket and session was executed earlier in
\* the run and exited with status zero.
C1_VerifiedBeforeSend ==
    \A j \in DOMAIN log :
        log[j].op = "send" =>
            \E t \in 1..(j - 1) :
                /\ log[t].op = "test"
                /\ log[t].rc = "exit0"
                /\ log[t].config = log[j].config

\* C2: in screen-sendenv, outside list mode and with a sender selected, the
\* set/unset commands executed are those of v1..vk in order, every command
\* but the last exited with zero, a failed command is the last one, and the run
\* ends in an error iff a send failed (it ends well only after all n).
C2_FailFast ==
    (tool = "screen-sendenv" /\ sender # NoSender /\ ~opts.list) =>
        /\ Len(Sends) <= Len(vars)
        /\ \A j \in 1..Len(Sends) :
              /\ Sends[j].idx = j
              /\ Sends[j].name = IF HasChar(vars[j], "=")
                                 THEN SubSeq(vars[j], 1, FirstChar(vars[j], "=") - 1)
                                 ELSE vars[j]
              /\ (j < Len(Sends) => ~Failed(Sends[j]))
        /\ (pc # "done" => \A j \in 1..Len(Sends) : ~Failed(Sends[j]))
        /\ (pc = "done" =>
              /\ (outcome # "ok" <=> \E j \in 1..Len(Sends) : Failed(Sends[j]))
              /\ (outcome = "ok" => Len(Sends) = Len(vars)))

\* C2 witness: a run of two variables whose first command failed has ended
\* in an error after exactly one command.
C2_Witness ==
    /\ tool = "screen-sendenv" /\ pc = "done" /\ ~opts.list
    /\ Len(vars) = 2 /\ Len(Sends) = 1
    /\ Sends[1].rc = "exit1" /\ outcome = "CalledProcessError"

\* C3: AutoSelectEnvSender tries the kinds one at a time in the order of the
\* dict, every attempt before the last one failed, the sender returned is of
\* the kind tried last and that attempt succeeded, no failure of an attempt
\* ends the call, and the call ends in the auto-detect error iff every kind
\* was tried and failed.
C3_AutoSelect ==
    (tool = "screen-sendenv" /\ opts.session_type = "auto" /\ pc # "main") =>
        /\ Len(tried) <= Len(order)
        /\ Range(order) = session_types /\ Len(order) = Cardinality(session_types)
        /\ \A j \in 1..Len(tried) :
              /\ tried[j].kind = order[j]
              /\ (j < Len(tried) => tried[j].result # "ok")
        /\ (sender # NoSender <=>
               (Len(tried) >= 1 /\ tried[Len(tried)].result = "ok"))
        /\ (sender # NoSender => sender.kind = tried[Len(tried)].kind)
        /\ ((pc = "done" /\ sender = NoSender) =>
               /\ outcome = "AutoDetectError"
               /\ Len(tried) = Len(order))
        /\ (outcome = "AutoDetectError" <=>
               (pc = "done" /\ Len(tried) = Len(order)
                /\ \A j \in 1..Len(tried) : tried[j].result # "ok"))

\* C3 witness: the first kind could not even be started, the second kind was
\* tried all the same and was selected.
C3_Witness ==
    /\ opts.session_type = "auto" /\ Len(tried) = 2
    /\ tried[1].result = "OSError" /\ tried[2].result = "ok"
    /\ sender # NoSender /\ sender.kind = order[2]

ScreenVerb(e) ==
    IF e.op = "test" THEN <<"echo", "">>
    ELSE IF e.value = None THEN <<"unsetenv", e.name>>
    ELSE <<"setenv", e.name, e.value[1]>>

ScreenPath == IF opts.path # None /\ opts.path # Some("") THEN opts.path[1] ELSE "screen"

\* C4 (as claimed): every command of a Screen sender is [path], then
\* ['-S', socket] iff the caller configured a socket, then '-X', then the verb.
C4_Original ==
    \A j \in DOMAIN log :
        log[j].kind = "screen" =>
            log[j].cmd = <<ScreenPath>>
                         \o (IF opts.socket # None THEN <<"-S", opts.socket[1]>> ELSE <<>>)
                         \o <<"-X">> \o ScreenVerb(log[j])

\* C4 (amended): every command of a Screen sender is [path], then
\* ['-S', socket] for the caller's socket when it is a non-empty string,
\* otherwise ['-S', d] for the output d of default_socket at that command when
\* d is not empty, otherwise nothing; then '-X', then the verb.
C4_ScreenCommands ==
    \A j \in DOMAIN log :
        log[j].kind = "screen" =>
            log[j].cmd = <<ScreenPath>>
                         \o (IF opts.socket # None /\ opts.socket[1] # ""
                             THEN <<"-S", opts.socket[1]>>
                             ELSE IF log[j].ds # None /\ log[j].ds[1] # ""
                             THEN <<"-S", log[j].ds[1]>>
                             ELSE <<>>)
                         \o <<"-X">> \o ScreenVerb(log[j])

\* C4 witness: a Screen sender without a socket of its own has executed a set
\* command on the socket default_socket found.
C4_Witness ==
    \E j \in DOMAIN log :
        /\ log[j].kind = "screen" /\ log[j].op = "send" /\ log[j].value # None
        /\ opts.socket = None /\ log[j].ds = Some("7.pts")
        /\ log[j].cmd = <<"screen", "-S", "7.pts", "-X", "setenv", log[j].name, log[j].value[1]>>

TmuxPath ==
    IF opts.path = None THEN "tmux"
    ELSE IF opts.path = Some("") /\ tool = "screen-sendenv" THEN "tmux"
    ELSE opts.path[1]

\* the prelude the socket rule of the unified tool prescribes
TmuxRulePrelude ==
    <<TmuxPath>> \o (IF opts.socket = None \/ opts.socket = Some("") THEN <<>>
                     ELSE IF HasChar(opts.socket[1], "/") THEN <<"-S", opts.socket[1]>>
                     ELSE <<"-L", opts.socket[1]>>)

\* C5 (as claimed): for every session number given, a Tmux sender's verb
\* arguments hold ['-t', session] in the documented position; without a
\* session the pair is omitted.
C5_SessionFlag ==
    \A j \in DOMAIN log :
        (log[j].tool = "screen-sendenv" /\ log[j].kind = "tmux") =>
            LET t == IF opts.session # None THEN <<"-t", str(opts.session[1])>> ELSE <<>>
                verb == IF log[j].op = "test" THEN <<"list-sessions">> \o t
                        ELSE IF log[j].value = None
                        THEN <<"setenv">> \o t \o <<"-u", log[j].name>>
                        ELSE <<"setenv">> \o t \o <<log[j].name, log[j].value[1]>>
            IN  log[j].cmd = TmuxRulePrelude \o verb

VerbWord(e) == IF e.op = "test" THEN "list-sessions" ELSE "setenv"

\* the command of e starts with the prelude p, and the verb follows
StartsWith(e, p) ==
    /\ Len(e.cmd) > Len(p)
    /\ SubSeq(e.cmd, 1, Len(p)) = p
    /\ e.cmd[Len(p) + 1] = VerbWord(e)

\* C6 (as claimed): every tmux command built by either tool starts with
\* [path, '-S', socket] for a socket with a path separator, [path, '-L', socket]
\* for a non-empty socket without one, and [path] alone with no socket.
C6_Original ==
    \A j \in DOMAIN log :
        log[j].kind = "tmux" => StartsWith(log[j], TmuxRulePrelude)

\* C6 (amended): every tmux command built by the Tmux sender of
\* screen-sendenv follows that rule; every command built by tmux-sendenv starts
\* with [path, '-S', socket] for any non-empty socket, and [path] alone with none.
C6_TmuxSocketFlag ==
    \A j \in DOMAIN log :
        log[j].kind = "tmux" =>
            IF log[j].tool = "screen-sendenv"
            THEN StartsWith(log[j], TmuxRulePrelude)
            ELSE StartsWith(log[j],
                     <<TmuxPath>> \o (IF opts.socket = None \/ opts.socket = Some("")
                                      THEN <<>> ELSE <<"-S", opts.socket[1]>>))

\* C6 witness: the Tmux sender of screen-sendenv has run a command on a named
\* socket with -L, and one on a socket path with -S.
C6_Witness ==
    \E j \in DOMAIN log :
        /\ log[j].tool = "screen-sendenv" /\ log[j].kind = "tmux"
        /\ log[j].op = "send"
        /\ \/ opts.socket = Some("s") /\ SubSeq(log[j].cmd, 2, 3) = <<"-L", "s">>
           \/ opts.socket = Some("/t/s") /\ SubSeq(log[j].cmd, 2, 3) = <<"-S", "/t/s">>

\* C7 (as claimed): a verification that does not succeed ends in the
\* connection error, whether the test command exited non-zero or could not be
\* started; no other error escapes.
C7_VerifierErrors ==
    /\ (tool = "screen-sendenv" /\ opts.session_type \in session_types
        /\ pc = "done" /\ sender = NoSender) => outcome = "ConnectionError"
    /\ \A j \in DOMAIN tried : tried[j].result \in {"ok", "ConnectionError"}

\* C8 (as claimed, both tools): an argument with an empty variable name is
\* rejected with an invalid-argument error and no set/unset command is executed
\* for it.
C8_EmptyNameRejected ==
    /\ \A j \in DOMAIN log : log[j].op = "send" => log[j].name # ""
    /\ (pc = "done" /\ outcome = "ok" /\ ~opts.list) =>
          \A j \in DOMAIN vars : SubSeq(vars[j], 1, 1) # "="

\* the value the claim prescribes for an argument
ClaimedValue(arg) ==
    LET r == IF HasChar(arg, "=")
             THEN Some(SubSeq(arg, FirstChar(arg, "=") + 1, Len(arg)))
             ELSE IF arg \in DOMAIN env THEN env[arg] ELSE None
    IN  IF opts.unset_empty /\ r = Some("") THEN None ELSE r

\* C9: every set/unset command executed, in either tool, sends the value the
\* claim prescribes for its argument: the text after the first '=', else the
\* environment's value, else absent, and absent instead of "" under
\* unset-empty; an absent value gives the unset command, a present one the
\* set command ending in the name and that value.
C9_ValueResolution ==
    \A j \in DOMAIN log :
        log[j].op = "send" =>
            LET e == log[j]
                n == Len(e.cmd)
                v == ClaimedValue(vars[e.idx])
            IN  /\ e.value = v
                /\ "setenv" \in Range(e.cmd) \/ "unsetenv" \in Range(e.cmd)
                /\ IF v = None
                   THEN /\ e.cmd[n] = e.name
                        /\ e.cmd[n - 1] = (IF e.kind = "screen" THEN "unsetenv" ELSE "-u")
                   ELSE /\ SubSeq(e.cmd, n - 1, n) = <<e.name, v[1]>>
                        /\ "-u" \notin Range(e.cmd) /\ "unsetenv" \notin Range(e.cmd)
                        /\ "setenv" \in Range(e.cmd)

\* C9 witness: with unset-empty off an explicit empty value was sent with the
\* set command, and the environment's value was sent for a bare name.
C9_Witness ==
    /\ ~opts.unset_empty /\ Len(Sends) = 2
    /\ vars[1] = "F=" /\ Sends[1].value = Some("") /\ "setenv" \in Range(Sends[1].cmd)
    /\ vars[2] = "F" /\ Sends[2].value = Some("e")

\* C10: in list mode no set/unset command is ever executed, whatever the
\* arguments; the run ends well iff a sender was selected, and with session
\* type auto and no sender it ends in the auto-detect error.
C10_ListMode ==
    (tool = "screen-sendenv" /\ opts.list) =>
        /\ Len(Sends) = 0
        /\ (pc = "done" => (outcome = "ok" <=> sender # NoSender))
        /\ ((pc = "done" /\ sender = NoSender /\ opts.session_type = "auto")
               => outcome = "AutoDetectError")

\* C10 witness: a list-mode run given two arguments has selected a sender and
\* ended well.
C10_Witness ==
    /\ tool = "screen-sendenv" /\ opts.list /\ Len(vars) = 2
    /\ pc = "done" /\ outcome = "ok" /\ sender # NoSender /\ Len(log) >= 1

====
